---- MODULE Spec2Model ----
(***************************************************************************)
(* lcon: an in-memory buffered net.Conn.                                   *)
(*                                                                         *)
(* Pipe (src/bidir.go:88-243) is a fixed-size byte buffer guarded by one   *)
(* mutex (rm) and one condition variable (rc) that Read, Write, the        *)
(* deadline setters, SetErrorAndClose and the deadline timer goroutines    *)
(* all share.  Bidir (src/bidir.go:8-65) wraps two pipes.                  *)
(*                                                                         *)
(* Every critical section of the code is one action: the mutex is free     *)
(* between actions.  A goroutine inside rc.Wait() is "parked" (on the      *)
(* notify list, mutex released); Broadcast moves every parked goroutine to *)
(* "woken", and a woken goroutine re-acquires the mutex in its Resume      *)
(* action.  sync.Cond has no spurious wakeups.                             *)
(*                                                                         *)
(* The type `buffer` (fields buf, closed, late and the methods Len,        *)
(* freeBytes, Read, Write, Close) is used by bidir.go but its file is not  *)
(* among the sources; the Buf* operators model it from the design          *)
(* document (section 4.1 and the error taxonomy of section 7).             *)
(***************************************************************************)
EXTENDS Integers, Sequences, FiniteSets, TLC

\* ---------------------------------------------------------------- bounds
\* len(buf) handed to NewPipe.
Cap == 2
\* Deadline timer goroutines alive at once on one pipe.
MaxTimers == 1

\* Longest payload of a Write: one more than the capacity, so that a
\* payload that can never fit occurs.
MaxLen == Cap + 1
\* Byte values; payload bytes are numbered consecutively modulo ByteMod.
ByteMod == Cap + 1
Byte == 0..(ByteMod - 1)

\* NewBidir allocates two pipes of its own: Send, then Recv.  `first` is
\* the number of the first pipe not yet allocated.
NewBidir(first) == [Send |-> first, Recv |-> first + 1]

\* Two endpoints, each made by one call of NewBidir.
Endpoints == [a |-> NewBidir(1), b |-> NewBidir(3)]
Ends == DOMAIN Endpoints
Pipes == UNION {{Endpoints[e].Send, Endpoints[e].Recv} : e \in Ends}
\* The pipe the single-pipe specification exercises.
P0 == Endpoints["a"].Send

ErrDeadline == "deadline exceeded"
ErrLconPipeClosed == "lcon pipe closed"
\* Errors a caller hands to SetErrorAndClose (pipe_test.go: errors.New("a"), "b").
CallerErrs == {"a", "b"}
\* The buffer's own error for a write that does not fit (caller misuse).
ErrWriteFull == "write on full buffer"

\* A deadline field holds a time.Time; the code only tests IsZero() and
\* the sign of deadline.Sub(time.Now()) at the start of a call.  The model
\* keeps "zero", "future" (not yet seen behind time.Now()) and "past" (a
\* call has seen it behind time.Now(), and time does not run backwards).
\* What a setter can store: a deadline already elapsed when it is set is a
\* "future" one that the next call finds elapsed.
Times == {"zero", "future"}

VARIABLES
    buf,            \* [Pipes -> [0..Cap-1 -> Byte]]  b.buf, the backing store
    rpos,           \* read cursor of the ring, modulo Cap
    count,          \* unread bytes, b.Len()
    closed,         \* b.closed
    err,            \* the sticky error of the buffer
    late,           \* b.late, the timed-out flag (one per pipe)
    readDeadline,   \* Pipe.readDeadline
    writeDeadline,  \* Pipe.writeDeadline
    Flushed,        \* len(Pipe.Flushed), a channel of capacity 1
    rd,             \* the goroutine calling Pipe.Read
    wr,             \* the goroutine calling Pipe.Write
    dfired,         \* timer goroutines past <-time.After(dur), before Lock
    bcast,          \* timer goroutines past Unlock, before Broadcast
    rseq,           \* history: value of the next byte a Read should return
    wseq,           \* history: value of the next byte a Write will buffer
    firstErr,       \* history: argument of the first close call
    reclosed,       \* history: "yes" once a later close call gave another
                    \* error, "read" once a Read met the closed buffer after it
    oneShot,        \* history: the last Read returned ErrDeadline and no
                    \* SetReadDeadline followed
    oneShotW,       \* history: the last Write waited and returned
                    \* ErrDeadline, and no SetWriteDeadline followed
    closing         \* [Ends -> error]: Bidir.SetErrorAndClose between its
                    \* two calls, "nil" when none is in progress

vars ==
    <<buf, rpos, count, closed, err, late, readDeadline, writeDeadline,
      Flushed, rd, wr, dfired, bcast, rseq, wseq, firstErr, reclosed,
      oneShot, oneShotW, closing>>

Min(a, b) == IF a < b THEN a ELSE b

\* The bytes of a payload of length n whose first byte has value s.
Labels(s, n) == [i \in 1..n |-> (s + i - 1) % ByteMod]

\* ------------------------------------------------------ the ring buffer
BufLen(p) == count[p]

freeBytes(p) == Cap - count[p]

\* buffer.Read: min(n, count) bytes from the read cursor, wrapping; on an
\* empty buffer the sticky error when closed, else the deadline error when
\* the timed-out flag is set.
BufRead(p, n) ==
    LET k == Min(n, count[p])
    IN [n     |-> k,
        data  |-> [i \in 1..k |-> buf[p][(rpos[p] + i - 1) % Cap]],
        err   |-> IF count[p] > 0 THEN "nil"
                  ELSE IF closed[p] THEN err[p]
                  ELSE IF late[p] THEN ErrDeadline
                  ELSE "nil",
        rpos  |-> (rpos[p] + k) % Cap,
        count |-> count[p] - k]

\* buffer.Write: the whole payload at the write cursor, wrapping, when the
\* buffer is open and the payload fits; otherwise nothing is buffered and
\* the error is the sticky error (closed), the deadline error (timed-out
\* flag set) or the misuse error.
BufWrite(p, src) ==
    LET wpos == (rpos[p] + count[p]) % Cap
        fits == freeBytes(p) >= Len(src)
    IN IF closed[p] THEN [n |-> 0, err |-> err[p], buf |-> buf[p], count |-> count[p]]
       ELSE IF ~fits
       THEN [n |-> 0, err |-> IF late[p] THEN ErrDeadline ELSE ErrWriteFull,
             buf |-> buf[p], count |-> count[p]]
       ELSE [n     |-> Len(src),
             err   |-> "nil",
             buf   |-> [i \in 0..(Cap - 1) |->
                          IF (i - wpos) % Cap < Len(src)
                          THEN src[((i - wpos) % Cap) + 1]
                          ELSE buf[p][i]],
             count |-> count[p] + Len(src)]

\* buffer.Close: the first call closes and stores the error, later calls
\* change nothing.
BufClose(p, e) ==
    IF closed[p] THEN [closed |-> TRUE, err |-> err[p]]
    ELSE [closed |-> TRUE, err |-> e]

\* ------------------------------------------------------------ goroutines
\* The goroutine calling Pipe.Read.  pc: "idle" before its first call,
\* "parked" in rc.Wait(), "woken" after a Broadcast, "done" once the call
\* returned (rn, err, data).  n: len(dest).  tm: the call's timer
\* goroutine: "none" (no deadline was set), "failfast" (the deadline had
\* elapsed at the call), "armed" (in its select, or ended by nextReadDone),
\* "fired" (time.After won its select).  after: the call began with data
\* buffered on an open pipe, right after a Read that returned ErrDeadline,
\* with no SetReadDeadline in between.
IdleReader ==
    [pc |-> "idle", n |-> 0, tm |-> "none", rn |-> 0, err |-> "nil",
     data |-> <<>>, after |-> FALSE]

\* The goroutine calling Pipe.Write; n: len(src).  after: the call began
\* with a payload that fits on an open pipe, right after a Write that
\* waited and returned ErrDeadline, with no SetWriteDeadline in between.
IdleWriter ==
    [pc |-> "idle", n |-> 0, tm |-> "none", rn |-> 0, err |-> "nil",
     after |-> FALSE]

InCall(proc) == proc.pc \in {"parked", "woken"}

\* rc.Broadcast() as seen by one goroutine: it leaves rc.Wait() if it is in it.
Broadcast(proc) == IF proc.pc = "parked" THEN [proc EXCEPT !.pc = "woken"] ELSE proc

\* Timer goroutines of pipe p that can still act.
TimersOut(p) ==
    dfired[p] + bcast[p]
    + (IF InCall(rd[p]) /\ rd[p].tm = "armed" THEN 1 ELSE 0)
    + (IF InCall(wr[p]) /\ wr[p].tm = "armed" THEN 1 ELSE 0)

\* What a call finds when its deadline is set: dur <= 0 ("failfast"), or
\* dur > 0 and a timer goroutine is started, which when the call's first
\* critical section ends is still in its select ("armed") or has seen
\* time.After(dur) win it ("fired").
Durations == {"failfast", "armed", "fired"}

Init ==
    /\ buf = [p \in Pipes |-> [i \in 0..(Cap - 1) |-> 0]]
    /\ rpos = [p \in Pipes |-> 0]
    /\ count = [p \in Pipes |-> 0]
    /\ closed = [p \in Pipes |-> FALSE]
    /\ err = [p \in Pipes |-> "nil"]
    /\ late = [p \in Pipes |-> FALSE]
    /\ readDeadline = [p \in Pipes |-> "zero"]
    /\ writeDeadline = [p \in Pipes |-> "zero"]
    /\ Flushed = [p \in Pipes |-> 0]
    /\ rd = [p \in Pipes |-> IdleReader]
    /\ wr = [p \in Pipes |-> IdleWriter]
    /\ dfired = [p \in Pipes |-> 0]
    /\ bcast = [p \in Pipes |-> 0]
    /\ rseq = [p \in Pipes |-> 0]
    /\ wseq = [p \in Pipes |-> 0]
    /\ firstErr = [p \in Pipes |-> "nil"]
    /\ reclosed = [p \in Pipes |-> "no"]
    /\ oneShot = [p \in Pipes |-> FALSE]
    /\ oneShotW = [p \in Pipes |-> FALSE]
    /\ closing = [e \in Ends |-> "nil"]

\* ------------------------------------------------------------- Pipe.Read
\* ReadWaitCond with a slip: the timed-out flag tested with the wrong sign.
ReadWaitCond_LateSlip(p) == BufLen(p) = 0 /\ ~closed[p] /\ late[p]

\* The loop condition of Pipe.Read.
ReadWaitCond(p) == BufLen(p) = 0 /\ ~closed[p] /\ ~late[p]

\* The timer goroutines past their select, counting the one a call started
\* in the critical section that is ending (pc "run") if it is past already.
Fired(p, proc) ==
    [dfired EXCEPT ![p] = @ + (IF proc.pc = "run" /\ proc.tm = "fired" THEN 1 ELSE 0)]

\* rc.Wait(): onto the notify list, mutex released.
ReadPark(p, proc) ==
    /\ rd' = [rd EXCEPT ![p] = [proc EXCEPT !.pc = "parked"]]
    /\ dfired' = Fired(p, proc)
    /\ oneShot' = [oneShot EXCEPT ![p] = FALSE]
    /\ UNCHANGED <<buf, rpos, count, closed, err, late, readDeadline,
                   writeDeadline, Flushed, wr, bcast, rseq, wseq,
                   firstErr, reclosed, oneShotW>>

\* ReadReturn with a slip: the bytes are handed out but the buffer's cursor
\* and count are not advanced.
ReadReturn_Peek(p, proc) ==
    LET res == BufRead(p, proc.n)
    IN /\ late' = [late EXCEPT ![p] = FALSE]
       /\ readDeadline' = [readDeadline EXCEPT ![p] = "zero"]
       /\ rd' = [rd EXCEPT ![p] = [proc EXCEPT !.pc = "done", !.n = 0, !.rn = res.n,
                                               !.err = res.err, !.data = res.data]]
       /\ dfired' = Fired(p, proc)
       /\ rseq' = [rseq EXCEPT ![p] = (@ + res.n) % ByteMod]
       /\ oneShot' = [oneShot EXCEPT ![p] = (res.err = ErrDeadline)]
       /\ reclosed' = [reclosed EXCEPT ![p] =
                           IF @ = "yes" /\ closed[p] /\ res.n = 0 THEN "read" ELSE @]
       /\ UNCHANGED <<buf, rpos, count, closed, err, writeDeadline, Flushed, wr,
                      bcast, wseq, firstErr, oneShotW>>

\* Past the loop: r.b.Read(p), then the deferred calls in reverse order:
\* late and readDeadline reset, close(nextReadDone), Unlock.  A timer that
\* is still armed takes the nextReadDone case and ends.
ReadReturn(p, proc) ==
    LET res == BufRead(p, proc.n)
    IN /\ rpos' = [rpos EXCEPT ![p] = res.rpos]
       /\ count' = [count EXCEPT ![p] = res.count]
       /\ late' = [late EXCEPT ![p] = FALSE]
       /\ readDeadline' = [readDeadline EXCEPT ![p] = "zero"]
       /\ rd' = [rd EXCEPT ![p] = [proc EXCEPT !.pc = "done", !.n = 0, !.rn = res.n,
                                               !.err = res.err, !.data = res.data]]
       /\ dfired' = Fired(p, proc)
       /\ rseq' = [rseq EXCEPT ![p] = (@ + res.n) % ByteMod]
       /\ oneShot' = [oneShot EXCEPT ![p] = (res.err = ErrDeadline)]
       /\ reclosed' = [reclosed EXCEPT ![p] =
                           IF @ = "yes" /\ closed[p] /\ res.n = 0 THEN "read" ELSE @]
       /\ UNCHANGED <<buf, closed, err, writeDeadline, Flushed, wr,
                      bcast, wseq, firstErr, oneShotW>>

\* The wait loop and what follows it, entered with the mutex held.
ReadLoop(p, proc) ==
    IF ReadWaitCond(p) THEN ReadPark(p, proc) ELSE ReadReturn(p, proc)

\* The deadline already elapsed when Read is called: return 0, ErrDeadline
\* before any defer but Unlock is registered.  The field is left as it is,
\* and is from now on known to lie behind time.Now().
ReadFailFast(p, proc) ==
    /\ rd' = [rd EXCEPT ![p] = [proc EXCEPT !.pc = "done", !.n = 0,
                                            !.err = ErrDeadline]]
    /\ readDeadline' = [readDeadline EXCEPT ![p] = "past"]
    /\ oneShot' = [oneShot EXCEPT ![p] = TRUE]
    /\ UNCHANGED <<buf, rpos, count, closed, err, late,
                   writeDeadline, Flushed, wr, dfired, bcast, rseq, wseq,
                   firstErr, reclosed, oneShotW>>

\* Pipe.Read(dest) with len(dest) = n, up to its return or its first Wait.
\* dur: what the call finds if its deadline is set and not yet known to
\* have elapsed.
PipeRead(p, n, dur) ==
    /\ rd[p].pc \in {"idle", "done"}
    /\ LET tm   == IF readDeadline[p] = "zero" THEN "none"
                   ELSE IF readDeadline[p] = "past" THEN "failfast"
                   ELSE dur
           proc == [IdleReader EXCEPT
                      !.pc = "run", !.n = n, !.tm = tm,
                      !.after = (oneShot[p] /\ count[p] > 0 /\ ~closed[p])]
       IN /\ readDeadline[p] # "future" => dur = "armed"
          /\ tm \in {"armed", "fired"} => TimersOut(p) < MaxTimers
          /\ IF tm = "failfast"
             THEN ReadFailFast(p, proc)
             ELSE ReadLoop(p, proc)

\* Pipe.Read re-acquires the mutex after a Broadcast and re-tests the loop.
PipeReadResume(p) ==
    /\ rd[p].pc = "woken"
    /\ ReadLoop(p, rd[p])

\* ------------------------------------------------------------ Pipe.Write
\* WriteWaitCond with a slip: a payload that fills the free space exactly
\* is made to wait.
WriteWaitCond_OffByOne(p, n) == freeBytes(p) <= n /\ ~closed[p] /\ ~late[p]

\* The loop condition of Pipe.Write, for a payload of n bytes.
WriteWaitCond(p, n) == freeBytes(p) < n /\ ~closed[p] /\ ~late[p]

WritePark(p, proc) ==
    /\ wr' = [wr EXCEPT ![p] = [proc EXCEPT !.pc = "parked"]]
    /\ dfired' = Fired(p, proc)
    /\ oneShotW' = [oneShotW EXCEPT ![p] = FALSE]
    /\ UNCHANGED <<buf, rpos, count, closed, err, late, readDeadline,
                   writeDeadline, Flushed, rd, bcast, rseq, wseq,
                   firstErr, reclosed, oneShot>>

\* Pipe.flush: a non-blocking send on the one-slot channel.
flush(p) == IF Flushed[p] = 0 THEN 1 ELSE Flushed[p]

\* WriteReturn with a slip: the deferred reset of late and writeDeadline is
\* missing.
WriteReturn_NoReset(p, proc) ==
    LET res == BufWrite(p, Labels(wseq[p], proc.n))
    IN /\ buf' = [buf EXCEPT ![p] = res.buf]
       /\ count' = [count EXCEPT ![p] = res.count]
       /\ Flushed' = [Flushed EXCEPT ![p] = flush(p)]
       /\ rd' = [rd EXCEPT ![p] = Broadcast(@)]
       /\ wr' = [wr EXCEPT ![p] = [proc EXCEPT !.pc = "done", !.rn = res.n,
                                               !.err = res.err]]
       /\ dfired' = Fired(p, proc)
       /\ wseq' = [wseq EXCEPT ![p] = (@ + res.n) % ByteMod]
       /\ oneShotW' = [oneShotW EXCEPT ![p] =
                         (res.err = ErrDeadline /\ proc.tm \in {"armed", "fired"})]
       /\ UNCHANGED <<rpos, closed, err, late, readDeadline, writeDeadline, bcast,
                      rseq, firstErr, reclosed, oneShot>>

\* Past the loop: r.b.Write(p), then the deferred calls in reverse order:
\* late and writeDeadline reset, flush, Broadcast, close(nextWriteDone),
\* Unlock.  The payload is the next proc.n byte values.
WriteReturn(p, proc) ==
    LET res == BufWrite(p, Labels(wseq[p], proc.n))
    IN /\ buf' = [buf EXCEPT ![p] = res.buf]
       /\ count' = [count EXCEPT ![p] = res.count]
       /\ late' = [late EXCEPT ![p] = FALSE]
       /\ writeDeadline' = [writeDeadline EXCEPT ![p] = "zero"]
       /\ Flushed' = [Flushed EXCEPT ![p] = flush(p)]
       /\ rd' = [rd EXCEPT ![p] = Broadcast(@)]
       /\ wr' = [wr EXCEPT ![p] = [proc EXCEPT !.pc = "done", !.rn = res.n,
                                               !.err = res.err]]
       /\ dfired' = Fired(p, proc)
       /\ wseq' = [wseq EXCEPT ![p] = (@ + res.n) % ByteMod]
       /\ oneShotW' = [oneShotW EXCEPT ![p] =
                         (res.err = ErrDeadline /\ proc.tm \in {"armed", "fired"})]
       /\ UNCHANGED <<rpos, closed, err, readDeadline, bcast, rseq,
                      firstErr, reclosed, oneShot>>

WriteLoop(p, proc) ==
    IF WriteWaitCond(p, proc.n) THEN WritePark(p, proc) ELSE WriteReturn(p, proc)

\* The deadline already elapsed when Write is called: return 0, ErrDeadline
\* before flush, Broadcast and the resets are deferred.
WriteFailFast(p, proc) ==
    /\ wr' = [wr EXCEPT ![p] = [proc EXCEPT !.pc = "done", !.err = ErrDeadline]]
    /\ writeDeadline' = [writeDeadline EXCEPT ![p] = "past"]
    /\ oneShotW' = [oneShotW EXCEPT ![p] = FALSE]
    /\ UNCHANGED <<buf, rpos, count, closed, err, late, readDeadline,
                   Flushed, rd, dfired, bcast, rseq, wseq,
                   firstErr, reclosed, oneShot>>

\* Pipe.Write(src) with len(src) = n, up to its return or its first Wait.
PipeWrite(p, n, dur) ==
    /\ wr[p].pc \in {"idle", "done"}
    /\ LET tm   == IF writeDeadline[p] = "zero" THEN "none"
                   ELSE IF writeDeadline[p] = "past" THEN "failfast"
                   ELSE dur
           proc == [IdleWriter EXCEPT
                      !.pc = "run", !.n = n, !.tm = tm,
                      !.after = (oneShotW[p] /\ freeBytes(p) >= n /\ ~closed[p])]
       IN /\ writeDeadline[p] # "future" => dur = "armed"
          /\ tm \in {"armed", "fired"} => TimersOut(p) < MaxTimers
          /\ IF tm = "failfast"
             THEN WriteFailFast(p, proc)
             ELSE WriteLoop(p, proc)

PipeWriteResume(p) ==
    /\ wr[p].pc = "woken"
    /\ WriteLoop(p, wr[p])

\* ------------------------------------------------- the timer goroutines
\* <-time.After(dur) wins the select of the timer started by the Read in
\* progress.
ReadTimerFire(p) ==
    /\ InCall(rd[p]) /\ rd[p].tm = "armed"
    /\ rd' = [rd EXCEPT ![p].tm = "fired"]
    /\ dfired' = [dfired EXCEPT ![p] = @ + 1]
    /\ UNCHANGED <<buf, rpos, count, closed, err, late, readDeadline,
                   writeDeadline, Flushed, wr, bcast, rseq, wseq, firstErr, reclosed,
                   oneShot, oneShotW>>

\* The same for the timer started by the Write in progress.
WriteTimerFire(p) ==
    /\ InCall(wr[p]) /\ wr[p].tm = "armed"
    /\ wr' = [wr EXCEPT ![p].tm = "fired"]
    /\ dfired' = [dfired EXCEPT ![p] = @ + 1]
    /\ UNCHANGED <<buf, rpos, count, closed, err, late, readDeadline,
                   writeDeadline, Flushed, rd, bcast, rseq, wseq, firstErr, reclosed,
                   oneShot, oneShotW>>

\* Lock; r.b.late = true; Unlock.
TimerSetLate(p) ==
    /\ dfired[p] > 0
    /\ dfired' = [dfired EXCEPT ![p] = @ - 1]
    /\ late' = [late EXCEPT ![p] = TRUE]
    /\ bcast' = [bcast EXCEPT ![p] = @ + 1]
    /\ UNCHANGED <<buf, rpos, count, closed, err, readDeadline, writeDeadline,
                   Flushed, rd, wr, rseq, wseq, firstErr, reclosed, oneShot, oneShotW>>

\* r.rc.Broadcast(), after the mutex was released.
TimerBroadcast(p) ==
    /\ bcast[p] > 0
    /\ bcast' = [bcast EXCEPT ![p] = @ - 1]
    /\ rd' = [rd EXCEPT ![p] = Broadcast(@)]
    /\ wr' = [wr EXCEPT ![p] = Broadcast(@)]
    /\ UNCHANGED <<buf, rpos, count, closed, err, late, readDeadline,
                   writeDeadline, Flushed, dfired, rseq, wseq, firstErr, reclosed,
                   oneShot, oneShotW>>

\* ------------------------------------------------- close and deadlines
\* PipeSetErrorAndClose with a slip: the buffer's closed flag and error are
\* assigned directly, not through r.b.Close(err).
PipeSetErrorAndClose_Overwrite(p, e) ==
    /\ closed' = [closed EXCEPT ![p] = TRUE]
    /\ err' = [err EXCEPT ![p] = e]
    /\ rd' = [rd EXCEPT ![p] = Broadcast(@)]
    /\ wr' = [wr EXCEPT ![p] = Broadcast(@)]
    /\ firstErr' = [firstErr EXCEPT ![p] = IF closed[p] THEN @ ELSE e]
    /\ reclosed' = [reclosed EXCEPT ![p] =
                           IF @ = "no" /\ closed[p] /\ e # firstErr[p] THEN "yes" ELSE @]
    /\ UNCHANGED <<buf, rpos, count, late, readDeadline, writeDeadline,
                   Flushed, dfired, bcast, rseq, wseq, oneShot, oneShotW>>

\* PipeSetErrorAndClose with a slip: no r.rc.Broadcast() after r.b.Close(err).
PipeSetErrorAndClose_NoWake(p, e) ==
    LET res == BufClose(p, e)
    IN /\ closed' = [closed EXCEPT ![p] = res.closed]
       /\ err' = [err EXCEPT ![p] = res.err]
       /\ firstErr' = [firstErr EXCEPT ![p] = IF closed[p] THEN @ ELSE e]
       /\ reclosed' = [reclosed EXCEPT ![p] =
                           IF @ = "no" /\ closed[p] /\ e # firstErr[p] THEN "yes" ELSE @]
       /\ UNCHANGED <<buf, rpos, count, late, readDeadline, writeDeadline,
                      Flushed, rd, wr, dfired, bcast, rseq, wseq, oneShot, oneShotW>>

\* Pipe.SetErrorAndClose: Lock; r.b.Close(err); Broadcast; Unlock.
PipeSetErrorAndClose(p, e) ==
    LET res == BufClose(p, e)
    IN /\ closed' = [closed EXCEPT ![p] = res.closed]
       /\ err' = [err EXCEPT ![p] = res.err]
       /\ rd' = [rd EXCEPT ![p] = Broadcast(@)]
       /\ wr' = [wr EXCEPT ![p] = Broadcast(@)]
       /\ firstErr' = [firstErr EXCEPT ![p] = IF closed[p] THEN @ ELSE e]
       /\ reclosed' = [reclosed EXCEPT ![p] =
                           IF @ = "no" /\ closed[p] /\ e # firstErr[p] THEN "yes" ELSE @]
       /\ UNCHANGED <<buf, rpos, count, late, readDeadline, writeDeadline,
                      Flushed, dfired, bcast, rseq, wseq, oneShot, oneShotW>>

\* Pipe.Close.
PipeClose(p) == PipeSetErrorAndClose(p, ErrLconPipeClosed)

\* Pipe.SetReadDeadline(t).
PipeSetReadDeadline(p, t) ==
    /\ readDeadline' = [readDeadline EXCEPT ![p] = t]
    /\ oneShot' = [oneShot EXCEPT ![p] = FALSE]
    /\ UNCHANGED <<buf, rpos, count, closed, err, late, writeDeadline,
                   Flushed, rd, wr, dfired, bcast, rseq, wseq, firstErr, reclosed,
                   oneShotW>>

\* Pipe.SetWriteDeadline(t).
PipeSetWriteDeadline(p, t) ==
    /\ writeDeadline' = [writeDeadline EXCEPT ![p] = t]
    /\ oneShotW' = [oneShotW EXCEPT ![p] = FALSE]
    /\ UNCHANGED <<buf, rpos, count, closed, err, late, readDeadline,
                   Flushed, rd, wr, dfired, bcast, rseq, wseq, firstErr, reclosed,
                   oneShot>>

\* An observer receives from the Flushed channel.
FlushedRecv(p) ==
    /\ Flushed[p] = 1
    /\ Flushed' = [Flushed EXCEPT ![p] = 0]
    /\ UNCHANGED <<buf, rpos, count, closed, err, late, readDeadline,
                   writeDeadline, rd, wr, dfired, bcast, rseq, wseq,
                   firstErr, reclosed, oneShot, oneShotW>>

\* ------------------------------------- one pipe, one reader, one writer
\* The calls below are made on the pipe itself; no Bidir call is involved.
Read == (\E n \in 1..Cap, dur \in Durations : PipeRead(P0, n, dur)) /\ UNCHANGED closing
ReadResume == PipeReadResume(P0) /\ UNCHANGED closing
Write == (\E n \in 1..MaxLen, dur \in Durations : PipeWrite(P0, n, dur)) /\ UNCHANGED closing
WriteResume == PipeWriteResume(P0) /\ UNCHANGED closing
ReadTimer == ReadTimerFire(P0) /\ UNCHANGED closing
WriteTimer == WriteTimerFire(P0) /\ UNCHANGED closing
SetLate == TimerSetLate(P0) /\ UNCHANGED closing
TimerWake == TimerBroadcast(P0) /\ UNCHANGED closing
Close == PipeClose(P0) /\ UNCHANGED closing
SetErrorAndClose == (\E e \in CallerErrs : PipeSetErrorAndClose(P0, e)) /\ UNCHANGED closing
SetReadDeadline == (\E t \in Times : PipeSetReadDeadline(P0, t)) /\ UNCHANGED closing
SetWriteDeadline == (\E t \in Times : PipeSetWriteDeadline(P0, t)) /\ UNCHANGED closing

Next ==
    \/ Read
    \/ ReadResume
    \/ Write
    \/ WriteResume
    \/ ReadTimer
    \/ WriteTimer
    \/ SetLate
    \/ TimerWake
    \/ Close
    \/ SetReadDeadline
    \/ SetWriteDeadline

Spec == Init /\ [][Next]_vars

\* ------------------------- closing with caller errors, no write deadline
CloseNext ==
    \/ Read
    \/ ReadResume
    \/ Write
    \/ WriteResume
    \/ ReadTimer
    \/ SetLate
    \/ TimerWake
    \/ Close
    \/ SetErrorAndClose
    \/ SetReadDeadline

CloseSpec == Init /\ [][CloseNext]_vars

\* ------------------------------------ two endpoints, no deadlines set
\* Bidir.Read: r.Recv.Read(p).
BidirRead(e, n) == PipeRead(Endpoints[e].Recv, n, "armed") /\ UNCHANGED closing
BidirReadResume(e) == PipeReadResume(Endpoints[e].Recv) /\ UNCHANGED closing

\* Bidir.Write: r.Send.Write(p).
BidirWrite(e, n) == PipeWrite(Endpoints[e].Send, n, "armed") /\ UNCHANGED closing
BidirWriteResume(e) == PipeWriteResume(Endpoints[e].Send) /\ UNCHANGED closing

\* Bidir.Close with a slip: the receive pipe is closed, not the send pipe.
BidirClose_Recv(e) == PipeClose(Endpoints[e].Recv) /\ UNCHANGED closing

\* Bidir.Close: c.Send.Close().
BidirClose(e) == PipeClose(Endpoints[e].Send) /\ UNCHANGED closing

\* Bidir.SetErrorAndClose(err): r.Recv.SetErrorAndClose(err) ...
BidirSetErrorAndClose(e, x) ==
    /\ closing[e] = "nil"
    /\ PipeSetErrorAndClose(Endpoints[e].Recv, x)
    /\ closing' = [closing EXCEPT ![e] = x]

\* ... then r.Send.SetErrorAndClose(err).
BidirSetErrorAndCloseSend(e) ==
    /\ closing[e] # "nil"
    /\ PipeSetErrorAndClose(Endpoints[e].Send, closing[e])
    /\ closing' = [closing EXCEPT ![e] = "nil"]

\* The user of endpoint a writes and closes; the user of endpoint b reads,
\* writes and closes with an error.
BidirNext ==
    \/ \E n \in 1..MaxLen : BidirWrite("a", n)
    \/ BidirWriteResume("a")
    \/ BidirClose("a")
    \/ \E n \in 1..Cap : BidirRead("b", n)
    \/ BidirReadResume("b")
    \/ \E n \in 1..Cap : BidirWrite("b", n)
    \/ BidirWriteResume("b")
    \/ \E x \in CallerErrs : BidirSetErrorAndClose("b", x)
    \/ BidirSetErrorAndCloseSend("b")

BidirSpec == Init /\ [][BidirNext]_vars

\* ------------------------- one endpoint and the far ends of its two pipes
\* Bidir.SetReadDeadline: r.Recv.SetReadDeadline(t).
BidirSetReadDeadline(e, t) ==
    PipeSetReadDeadline(Endpoints[e].Recv, t) /\ UNCHANGED closing

\* Send and Recv are exported fields: whoever holds the endpoint reads its
\* send pipe and writes its receive pipe directly.
SendRead(e, n) == PipeRead(Endpoints[e].Send, n, "armed") /\ UNCHANGED closing
SendReadResume(e) == PipeReadResume(Endpoints[e].Send) /\ UNCHANGED closing
RecvWrite(e, n) == PipeWrite(Endpoints[e].Recv, n, "armed") /\ UNCHANGED closing

\* A read deadline set on the endpoint lies far enough ahead that its timer
\* does not fire.  The reader of the send pipe asks for Cap bytes.  Nothing
\* here broadcasts on the receive pipe while a Write waits on it (Read does
\* not, the pipe is not closed, no timer fires), so a Write that waits on it
\* never runs on.
HalfCloseNext ==
    \/ \E n \in 1..Cap : BidirWrite("a", n)
    \/ BidirWriteResume("a")
    \/ BidirClose("a")
    \/ \E n \in 1..Cap : BidirRead("a", n)
    \/ BidirReadResume("a")
    \/ \E t \in Times : BidirSetReadDeadline("a", t)
    \/ SendRead("a", Cap)
    \/ SendReadResume("a")
    \/ \E n \in 1..Cap : RecvWrite("a", n)

HalfCloseSpec == Init /\ [][HalfCloseNext]_vars

\* -------------------------------------------------------------- fairness
\* What the Go runtime guarantees: a goroutine that a Broadcast took off the
\* notify list gets the mutex and runs on; a timer goroutine in its select
\* sees time.After(dur) deliver, then takes the mutex, then broadcasts.
\* Nothing obliges a caller to make a further call.
Fairness ==
    /\ WF_vars(ReadResume)
    /\ WF_vars(WriteResume)
    /\ WF_vars(ReadTimer)
    /\ WF_vars(WriteTimer)
    /\ WF_vars(SetLate)
    /\ WF_vars(TimerWake)

FairSpec == Init /\ [][Next]_vars /\ Fairness

\* ====================================================== the properties
\* The unread bytes of pipe p, oldest first.
Contents(p) == [i \in 1..count[p] |-> buf[p][(rpos[p] + i - 1) % Cap]]

\* The bytes buffered by the successful Writes are numbered consecutively;
\* those not yet handed to a Read are exactly the ones in the buffer, in
\* order.
Ledger(p) ==
    /\ count[p] \in 0..Cap
    /\ wseq[p] = (rseq[p] + count[p]) % ByteMod
    /\ Contents(p) = Labels(rseq[p], count[p])

\* C2 (FIFO): every Read returns the bytes that follow, in the order of the
\* successful Writes, the last byte a Read returned before it, and what the
\* Writes buffered beyond that is in the buffer in the same order: no byte
\* is lost, duplicated or reordered.
C2_FIFO ==
    \A p \in Pipes :
        /\ Ledger(p)
        /\ rd[p].pc = "done" =>
              rd[p].data = Labels((rseq[p] - rd[p].rn) % ByteMod, rd[p].rn)

\* A Read returned Cap bytes that lay across the end of the backing store,
\* while a later Write's bytes are already buffered behind them.
C2_Witness ==
    /\ rd[P0].pc = "done" /\ rd[P0].rn = Cap /\ rd[P0].err = "nil"
    /\ rd[P0].data[1] > rd[P0].data[Cap]
    /\ rpos[P0] # 0 /\ count[P0] > 0

C4_BlockingRead ==
    \A p \in Pipes :
        (rd[p].pc = "done" /\ rd[p].tm = "none" /\ ~closed[p]) => rd[p].rn > 0

\* C5 (deadline timing): on an open pipe on which Write was never called,
\* a Read called with an unexpired deadline returns (0, ErrDeadline), after
\* its timer fired.
C5_DeadlineTiming ==
    \A p \in Pipes :
        (rd[p].pc = "done" /\ rd[p].tm \in {"armed", "fired"}
            /\ wr[p].pc = "idle" /\ ~closed[p])
        => (rd[p].rn = 0 /\ rd[p].err = ErrDeadline /\ rd[p].tm = "fired")

\* Such a Read has returned.
C5_Witness ==
    /\ rd[P0].pc = "done" /\ rd[P0].tm = "fired" /\ rd[P0].err = ErrDeadline
    /\ wr[P0].pc = "idle" /\ ~closed[P0] /\ ~late[P0] /\ readDeadline[P0] = "zero"

\* C7 (one-shot deadline): a Read called on an open pipe with data
\* buffered, right after a Read that returned ErrDeadline and with no
\* SetReadDeadline in between, returns data and no error.
C7_OneShot ==
    \A p \in Pipes :
        (rd[p].pc = "done" /\ rd[p].after) => (rd[p].rn > 0 /\ rd[p].err = "nil")

\* A step in which the Read of pipe p returns.
ReadReturns(p) == rd'[p].pc = "done" /\ rd'[p] # rd[p]

\* C8 (sticky first error): a closed pipe stays closed and keeps the error
\* of the first close call whatever close calls follow, and a Read that
\* reaches the empty buffer of a closed pipe returns (0, that first error).
\* (A Read whose deadline had already elapsed fails fast before it looks at
\* the buffer.)
C8_StickyFirstError ==
    [][\A p \in Pipes :
          /\ closed[p] => (closed'[p] /\ err'[p] = firstErr[p])
          /\ (ReadReturns(p) /\ closed[p] /\ count[p] = 0 /\ readDeadline[p] # "past"
                /\ rd[p].tm # "failfast" /\ rd'[p].tm # "failfast")
             => (rd'[p].rn = 0 /\ rd'[p].err = firstErr[p])]_vars

\* SetErrorAndClose("a"), then a close call with another error, then a
\* Read of the empty buffer that returned "a".
C8_Witness ==
    /\ closed[P0] /\ firstErr[P0] = "a" /\ reclosed[P0] = "read"
    /\ rd[P0].pc = "done" /\ rd[P0].err = "a" /\ rd[P0].tm = "none"

\* C1 (backpressure): a Write without deadline that is blocked on an open
\* pipe while its payload fits the free space (a Read has drained enough)
\* eventually returns.
C1_Backpressure ==
    LET p == P0 IN
        (wr[p].pc = "parked" /\ wr[p].tm = "none" /\ ~closed[p]
            /\ wr[p].n <= freeBytes(p))
        ~> (wr[p].pc = "done")

\* C6 (deadlines bound blocking): a Read or Write in its wait whose deadline
\* timer has fired eventually returns.
C6_DeadlineBounds ==
    LET p == P0 IN
        /\ (InCall(rd[p]) /\ rd[p].tm = "fired") ~> (rd[p].pc = "done")
        /\ (InCall(wr[p]) /\ wr[p].tm = "fired") ~> (wr[p].pc = "done")

\* C9 (close wakes waiters): a Read blocked on the empty buffer and a Write
\* blocked for lack of space when the pipe is closed eventually return, the
\* Read (0, the sticky error) and the Write (0, the sticky error).
C9_CloseWakes ==
    LET p == P0 IN
        /\ (closed[p] /\ InCall(rd[p]) /\ count[p] = 0)
              ~> (rd[p].pc = "done" /\ rd[p].rn = 0 /\ rd[p].err = err[p])
        /\ (closed[p] /\ InCall(wr[p]))
              ~> (wr[p].pc = "done" /\ wr[p].rn = 0 /\ wr[p].err = err[p])

\* The pipe was closed under a blocked Read and a blocked Write, and both
\* are off the notify list.
C9_Witness ==
    /\ closed[P0] /\ err[P0] = ErrLconPipeClosed
    /\ rd[P0].pc = "woken" /\ wr[P0].pc = "woken"
    /\ rd[P0].tm = "none" /\ wr[P0].tm = "none"

\* C10 (full-duplex pairing): the bytes written on one endpoint and not yet
\* read are the bytes the other endpoint's Read finds in its receive pipe,
\* so that a Write on a followed by a Read on b returns the payload.
C10_Pairing ==
    \A e, f \in Ends :
        e # f => Contents(Endpoints[e].Send) = Contents(Endpoints[f].Recv)

\* Everything the pipe p holds and the calls in progress on it.
PipeState(p) ==
    <<buf[p], rpos[p], count[p], closed[p], err[p], late[p], readDeadline[p],
      writeDeadline[p], Flushed[p], rd[p], wr[p], dfired[p], bcast[p]>>

\* C11 (half-close asymmetry): the step of Bidir.Close closes the endpoint's
\* send pipe and leaves its receive pipe as it is (open, bytes, deadlines,
\* calls in progress); a Read on the endpoint never returns the close error
\* of the send pipe; and a Read of the closed send pipe returns buffered
\* bytes while there are some, then (0, ErrLconPipeClosed).
C11_HalfClose ==
    [][\A e \in Ends :
          LET s == Endpoints[e].Send
              r == Endpoints[e].Recv
          IN /\ (~closed[s] /\ closed'[s])
                   => (err'[s] = ErrLconPipeClosed /\ PipeState(r)' = PipeState(r))
             /\ ~closed'[r]
             /\ ReadReturns(r) => rd'[r].err # ErrLconPipeClosed
             /\ (ReadReturns(s) /\ closed[s])
                   => IF count[s] > 0
                      THEN rd'[s].rn > 0 /\ rd'[s].err = "nil"
                      ELSE rd'[s].rn = 0 /\ rd'[s].err = ErrLconPipeClosed]_vars

\* The send pipe is closed and a Read of it returned the close error; a
\* Read on the endpoint, called with a read deadline set, returned bytes of
\* the receive pipe, which holds more.
C11_Witness ==
    LET s == Endpoints["a"].Send
        r == Endpoints["a"].Recv
    IN /\ closed[s] /\ ~closed[r]
       /\ rd[s].pc = "done" /\ rd[s].err = ErrLconPipeClosed
       /\ rd[r].pc = "done" /\ rd[r].rn > 0 /\ rd[r].err = "nil"
       /\ rd[r].tm = "armed" /\ count[r] > 0

\* A step in which Write is called on pipe p.
WriteCalls(p) == wr[p].pc \in {"idle", "done"} /\ wr'[p] # wr[p]

\* C12 (capacity invariant): the buffered count stays within 0..Cap, and a
\* Write called on an open pipe with no deadline set and a payload that fits
\* the free space returns in that same critical section, without waiting,
\* (len(src), nil) with the count raised by len(src).
C12_Capacity ==
    [][\A p \in Pipes :
          /\ count'[p] \in 0..Cap
          /\ (WriteCalls(p) /\ ~closed[p] /\ readDeadline[p] = "zero"
                /\ writeDeadline[p] = "zero" /\ wr'[p].n <= freeBytes(p))
             => /\ wr'[p].pc = "done"
                /\ wr'[p].rn = wr'[p].n /\ wr'[p].err = "nil"
                /\ count'[p] = count[p] + wr'[p].n]_vars

\* A Write without deadline filled the buffer to its capacity after Reads
\* had moved the cursor.
C12_Witness ==
    /\ wr[P0].pc = "done" /\ wr[P0].tm = "none" /\ wr[P0].rn = wr[P0].n
    /\ wr[P0].err = "nil" /\ count[P0] = Cap /\ rpos[P0] # 0
    /\ ~closed[P0] /\ readDeadline[P0] = "zero"

\* C13 (oversized write): a Write without deadline whose payload is larger
\* than the capacity, once called on an open pipe, eventually returns
\* (0, an error).
C13_Oversized ==
    LET p == P0 IN
        (InCall(wr[p]) /\ wr[p].n > Cap /\ wr[p].tm = "none" /\ ~closed[p])
        ~> (wr[p].pc = "done" /\ wr[p].rn = 0 /\ wr[p].err # "nil")

\* C14 (no dangling timer): while no Read and no Write call is in progress
\* on a pipe, its timed-out flag is false.
C14_NoDanglingTimer ==
    \A p \in Pipes : (~InCall(rd[p]) /\ ~InCall(wr[p])) => ~late[p]

\* C15 (per-direction deadlines): where write deadlines are never set, so
\* that every timer is the timer of a read deadline, a Write whose payload
\* is within the capacity and that has returned on a pipe still open has
\* buffered its payload and returned no error.
C15_PerDirection ==
    \A p \in Pipes :
        (wr[p].pc = "done" /\ wr[p].tm = "none" /\ wr[p].n <= Cap /\ ~closed[p])
            => (wr[p].rn = wr[p].n /\ wr[p].err = "nil")

\* A step in which the Write of pipe p gets past its wait loop, calls
\* r.b.Write(p) and returns.
WriteDelegates(p) ==
    wr'[p].pc = "done" /\ wr'[p] # wr[p] /\ wr'[p].tm # "failfast"

\* C16 (buffer write precondition): in every step in which Pipe.Write calls
\* the buffer's write, the pipe is open and the payload fits the free
\* space.
C16_WritePrecondition ==
    [][\A p \in Pipes :
          WriteDelegates(p) => (~closed[p] /\ wr'[p].n <= freeBytes(p))]_vars

\* C17 (flush indicator): the Flushed channel holds at most one
\* notification, and one is placed in it only in a step in which a Write
\* returns having buffered its payload without error.
C17_FlushIndicator ==
    [][\A p \in Pipes :
          /\ Flushed'[p] \in {0, 1}
          /\ (Flushed[p] = 0 /\ Flushed'[p] = 1)
                => (wr'[p].pc = "done" /\ wr'[p].rn = wr'[p].n
                      /\ wr'[p].rn > 0 /\ wr'[p].err = "nil")]_vars

\* A step in which Read is called on pipe p.
ReadCalls(p) == rd[p].pc \in {"idle", "done"} /\ rd'[p] # rd[p]

\* C18 (closed is absorbing): a closed pipe stays closed; a Read or Write
\* called on it returns in the same critical section, without waiting; the
\* Write buffers nothing and returns an error; and the Read, unless a read
\* deadline was set that no Read has reported yet, returns buffered bytes
\* while there are some and (0, the sticky error) once the buffer is empty.
C18_ClosedAbsorbing ==
    [][\A p \in Pipes :
          /\ closed[p] => closed'[p]
          /\ (ReadCalls(p) /\ closed[p]) => rd'[p].pc = "done"
          /\ (ReadCalls(p) /\ closed[p] /\ (readDeadline[p] = "zero" \/ oneShot[p]))
                => IF count[p] > 0
                   THEN rd'[p].rn > 0 /\ rd'[p].err = "nil"
                   ELSE rd'[p].rn = 0 /\ rd'[p].err = err[p]
          /\ (WriteCalls(p) /\ closed[p])
                => /\ wr'[p].pc = "done" /\ wr'[p].rn = 0 /\ wr'[p].err # "nil"
                   /\ count'[p] = count[p]]_vars

\* C19 (a deadline is consumed only by the call it governs): a Read that
\* was called with no read deadline set leaves, when it returns, the read
\* deadline as a SetReadDeadline made it in the meantime; the same for a
\* Write and the write deadline.
C19_DeadlineOwner ==
    [][\A p \in Pipes :
          /\ (ReadReturns(p) /\ rd'[p].tm = "none")
                => readDeadline'[p] = readDeadline[p]
          /\ (WriteDelegates(p) /\ wr'[p].tm = "none")
                => writeDeadline'[p] = writeDeadline[p]]_vars

====
